---------------------------- MODULE Spec2Model ----------------------------
(***************************************************************************)
(* A model of the FP-Growth engine of src/src/fp_growth.py: the item       *)
(* header table, the FP-tree, the conditional pattern bases and the        *)
(* enumeration of frequent item sets, driven by the build and              *)
(* find_frequency_item_sets calls of class FpGrowth.                       *)
(*                                                                         *)
(* Python objects are modelled as follows.                                 *)
(*   - An item is a positive integer; None is 0.                           *)
(*   - Node objects live in a heap, a sequence of records; a reference to  *)
(*     a Node is its index in the heap, the reference None is 0.  The      *)
(*     root of an engine's tree is heap[1].                                *)
(*   - A dict is a sequence of entries in insertion order (Python dicts    *)
(*     iterate in insertion order).                                        *)
(*   - The iteration order of a Python set is not specified by the         *)
(*     language.  The order in which list(set(...)) lists items is the     *)
(*     variable set_order, fixed for a run and drawn from SetOrders; the   *)
(*     order in which a header's pointer set is iterated is drawn by the   *)
(*     action that iterates it.                                            *)
(*   - An exception leaving build is recorded in raised, with pc "raised". *)
(***************************************************************************)
EXTENDS Integers, Sequences, FiniteSets

\* Bounds of the model: the items 1..MaxItem, raw item sets of at most MaxLen
\* entries, collections of at most MaxSets item sets, min_item_count up to
\* MaxItemCount.
MaxItem == 2
MaxLen == 2
MaxSets == 2
MaxItemCount == 3
\* Every threshold above the number of item sets filters every item.
MaxSupport == MaxSets + 1

\* The reference run of src/run.py.
ReferenceMinSupport == 3
MaxReferenceItem == 8
ReferenceItemSets ==
    << <<1, 2, 3, 4, 5>>, <<5, 4, 3, 2, 1>>, <<1, 2, 3, 4, 6>>, <<1, 2, 3, 5>>,
       <<1, 2, 3>>, <<2>>, <<2, 7>>, <<2, 7>>, <<2, 7>>, <<2, 8>> >>

None == 0
Engines == {1, 2}
Items == 1..MaxItem
NumItems == IF MaxItem > MaxReferenceItem THEN MaxItem ELSE MaxReferenceItem

SeqsUpTo(S, n) == UNION {[1..k -> S] : k \in 0..n}
\* A raw item set may repeat an item; it is given in non-decreasing order (the
\* engine turns it into a set before it reads it).
RawItemSets == {s \in SeqsUpTo(Items, MaxLen) :
                   \A i \in DOMAIN s : \A j \in DOMAIN s : i < j => s[i] <= s[j]}
Collections == SeqsUpTo(RawItemSets, MaxSets)
SetOrders == {[i \in 1..NumItems |-> i], [i \in 1..NumItems |-> NumItems + 1 - i]}

Range(s) == {s[i] : i \in DOMAIN s}

\* F(x), with x evaluated once, before F is applied to its value.
Apply(x, F(_)) == CHOOSE r \in {F(v) : v \in {x}} : TRUE

VARIABLES input, set_order, min_support, pc, item_sets, next_set,
          item_header_table, nodes, conditional_pattern_bases, raised,
          result, min_item_count, last_call

vars == <<input, set_order, min_support, pc, item_sets, next_set,
          item_header_table, nodes, conditional_pattern_bases, raised,
          result, min_item_count, last_call>>

-----------------------------------------------------------------------------
(* dicts in insertion order *)

DictHas(d, k) == \E i \in DOMAIN d : d[i].key = k
DictIndex(d, k) == CHOOSE i \in DOMAIN d : d[i].key = k
DictGet(d, k) == d[DictIndex(d, k)].value
\* d[k] = v
DictSet(d, k, v) ==
    IF DictHas(d, k)
    THEN [d EXCEPT ![DictIndex(d, k)].value = v]
    ELSE Append(d, [key |-> k, value |-> v])
\* d[k] = (d[k] + n) if k in d else n
DictAdd(d, k, n) == DictSet(d, k, IF DictHas(d, k) THEN DictGet(d, k) + n ELSE n)
\* A variant with the comparison turned round: it drops the entries that reach
\* the bound.
DictDropBelowFlipped(d, bound) ==
    LET Keep(entry) == entry.value < bound IN SelectSeq(d, Keep)

\* for k in list(d.keys()): if d[k] < bound: d.pop(k)
DictDropBelow(d, bound) ==
    LET Keep(entry) == ~(entry.value < bound) IN SelectSeq(d, Keep)
DictKeys(d) == [i \in DOMAIN d |-> d[i].key]

\* sorted(d.items(), key=lambda kv: kv[1], reverse=True): a stable sort, entries
\* of equal value keep their order.
SortedByValueDesc(unsorted) ==
    LET Sorted(d) ==
          LET n == Len(d)
              pos(i) == 1 + Cardinality({j \in 1..n :
                              \/ d[j].value > d[i].value
                              \/ d[j].value = d[i].value /\ j < i})
          IN [k \in 1..n |-> d[CHOOSE i \in 1..n : pos(i) = k]]
    IN Apply(unsorted, Sorted)

-----------------------------------------------------------------------------
(* class Node, class ItemHeader *)

Node(item, frequency, parent) ==
    [item |-> item, frequency |-> frequency, parent |-> parent, children |-> <<>>]

ItemHeader(item, frequency) ==
    [item |-> item, frequency |-> frequency, pointers |-> {}]

Tree == << Node(None, 0, None) >>

-----------------------------------------------------------------------------
(* class ItemHeaderTable: _table is a dict from item to ItemHeader *)

contain(table, item) == DictHas(table, item)
get(table, item) == DictGet(table, item)
add(table, item, frequency) == DictSet(table, item, ItemHeader(item, frequency))
get_table(table) == [i \in DOMAIN table |-> table[i].value]

\* The pointer set of a header after add_pointer(pointer).
add_pointer(header, pointer) == [header EXCEPT !.pointers = @ \cup {pointer}]

\* A variant that ignores a node whose item has no header.
add_item_header_pointer_silent(table, heap, pointer) ==
    IF ~contain(table, heap[pointer].item)
    THEN [table |-> table, raised |-> "none"]
    ELSE [table |-> DictSet(table, heap[pointer].item,
                            add_pointer(get(table, heap[pointer].item), pointer)),
          raised |-> "none"]

\* A variant that registers nothing.
add_item_header_pointer_skip(table, heap, pointer) ==
    IF ~contain(table, heap[pointer].item)
    THEN [table |-> table, raised |-> "ValueError"]
    ELSE [table |-> table, raised |-> "none"]

add_item_header_pointer(table, heap, pointer) ==
    IF ~contain(table, heap[pointer].item)
    THEN [table |-> table, raised |-> "ValueError"]
    ELSE [table |-> DictSet(table, heap[pointer].item,
                            add_pointer(get(table, heap[pointer].item), pointer)),
          raised |-> "none"]

\* A variant that filters and does not sort.
filter_and_sort_item_set_unsorted(table, item_set) ==
    LET Known(item) == contain(table, item) IN SelectSeq(item_set, Known)

filter_and_sort_item_set(table, item_set) ==
    LET Known(item) == contain(table, item)
        filtered == SelectSeq(item_set, Known)
        keyed == [i \in DOMAIN filtered |->
                    [key |-> filtered[i], value |-> get(table, filtered[i]).frequency]]
    IN DictKeys(SortedByValueDesc(keyed))

-----------------------------------------------------------------------------
(* FpGrowth._build_item_header_table *)

\* A variant that keeps the repeats.
DedupKeepsRepeats(item_set, order) == item_set

\* list(set(item for item in item_set)): the distinct items, in set order.
Dedup(item_set, order) ==
    LET Member(item) == item \in Range(item_set) IN SelectSeq(order, Member)

RECURSIVE CountItem(_, _)
CountItem(raw_items, item_set) ==
    IF item_set = <<>> THEN raw_items
    ELSE LET Rest(counted) == CountItem(counted, Tail(item_set))
         IN Apply(DictAdd(raw_items, Head(item_set), 1), Rest)

RECURSIVE CountItems(_, _)
CountItems(raw_items, sets) ==
    IF sets = <<>> THEN raw_items
    ELSE LET Rest(counted) == CountItems(counted, Tail(sets))
         IN Apply(CountItem(raw_items, Head(sets)), Rest)

RECURSIVE AddAll(_, _)
AddAll(table, sorted_items) ==
    IF sorted_items = <<>> THEN table
    ELSE LET Rest(added) == AddAll(added, Tail(sorted_items))
         IN Apply(add(table, Head(sorted_items).key, Head(sorted_items).value), Rest)

build_item_header_table(table, sets, support) ==
    LET AddSorted(sorted_items) == AddAll(table, sorted_items)
    IN Apply(SortedByValueDesc(DictDropBelow(CountItems(<<>>, sets), support)),
             AddSorted)

-----------------------------------------------------------------------------
(* Tree.add_item_set, with the loop of FpGrowth._build_tree that consumes   *)
(* the generator: each new node is registered as soon as it is yielded.     *)

\* A variant whose comparison never matches.
FindChildNever(heap, root, item) == None

\* The first child of root that carries item, or None.
FindChild(heap, root, item) ==
    LET children == heap[root].children
        hits == {i \in DOMAIN children : heap[children[i]].item = item}
    IN IF hits = {} THEN None
       ELSE children[CHOOSE i \in hits : \A j \in hits : i <= j]

\* The tree and the table after the first item of item_set: the child found
\* has its frequency raised; a child not found is made, appended and yielded,
\* and _build_tree registers it.
AddFirstItem(heap, table, root, item) ==
    LET child == FindChild(heap, root, item)
        node == Len(heap) + 1
    IN IF child # None
       THEN [nodes |-> [heap EXCEPT ![child].frequency = @ + 1], table |-> table,
             next_root |-> child, raised |-> "none"]
       ELSE LET Register(heap1) ==
                  LET Registered(done) ==
                        [nodes |-> heap1, table |-> done.table, next_root |-> node,
                         raised |-> done.raised]
                  IN Apply(add_item_header_pointer(table, heap1, node), Registered)
            IN Apply(Append([heap EXCEPT ![root].children = Append(@, node)],
                            Node(item, 1, root)),
                     Register)

RECURSIVE add_item_set(_, _, _, _)
add_item_set(heap, table, root, item_set) ==
    IF item_set = <<>>
    THEN [nodes |-> heap, table |-> table, raised |-> "IndexError"]
    ELSE
      LET Rest(first) ==
            IF first.raised = "none" /\ Len(item_set) > 1
            THEN add_item_set(first.nodes, first.table, first.next_root, Tail(item_set))
            ELSE [nodes |-> first.nodes, table |-> first.table, raised |-> first.raised]
      IN Apply(AddFirstItem(heap, table, root, item_set[1]), Rest)

-----------------------------------------------------------------------------
(* FpGrowth._build_conditional_pattern_bases *)

\* The pointers of a header in the order the set is iterated: by creation, or
\* by creation reversed.
RECURSIVE Ascending(_)
Ascending(S) ==
    IF S = {} THEN <<>>
    ELSE LET least == CHOOSE x \in S : \A y \in S : x <= y
         IN <<least>> \o Ascending(S \ {least})

Reversed(s) == [i \in DOMAIN s |-> s[Len(s) + 1 - i]]

Iterate(S, backwards) == IF backwards THEN Reversed(Ascending(S)) ELSE Ascending(S)

\* A variant that counts each path once instead of by the frequency of head.
RECURSIVE WalkCountsOne(_, _, _, _)
WalkCountsOne(heap, head, tail, base) ==
    IF heap[tail].item = None THEN base
    ELSE LET Rest(counted) == WalkCountsOne(heap, head, heap[tail].parent, counted)
         IN Apply(DictAdd(base, heap[tail].item, 1), Rest)

\* A variant that stops at the parent of head.
WalkParentOnly(heap, head, tail, base) ==
    IF heap[tail].item = None THEN base
    ELSE DictAdd(base, heap[tail].item, heap[head].frequency)

\* while tail.item is not None: base[tail.item] += head.frequency; tail = tail.parent
RECURSIVE Walk(_, _, _, _)
Walk(heap, head, tail, base) ==
    IF heap[tail].item = None THEN base
    ELSE LET Rest(counted) == Walk(heap, head, heap[tail].parent, counted)
         IN Apply(DictAdd(base, heap[tail].item, heap[head].frequency), Rest)

RECURSIVE WalkAll(_, _, _)
WalkAll(heap, pointers, base) ==
    IF pointers = <<>> THEN base
    ELSE LET Rest(counted) == WalkAll(heap, Tail(pointers), counted)
         IN Apply(Walk(heap, Head(pointers), heap[Head(pointers)].parent, base), Rest)

RECURSIVE build_conditional_pattern_bases(_, _, _, _, _)
build_conditional_pattern_bases(bases, headers, heap, support, backwards) ==
    IF headers = <<>> THEN bases
    ELSE
      LET item_header == Head(headers)
          Store(base) == IF Len(base) > 0
                         THEN DictSet(bases, item_header.item, DictKeys(base))
                         ELSE bases
          Rest(stored) ==
              build_conditional_pattern_bases(stored, Tail(headers), heap, support,
                                              backwards)
      IN Apply(Apply(DictDropBelow(
                         WalkAll(heap, Iterate(item_header.pointers, backwards), <<>>),
                         support),
                     Store),
               Rest)

-----------------------------------------------------------------------------
(* FpGrowth._find_frequent_item_sets, FpGrowth.find_frequency_item_sets *)

\* itertools.combinations(base, i), in the order itertools yields them.
RECURSIVE combinations(_, _)
combinations(base, i) ==
    IF i = 0 THEN << <<>> >>
    ELSE IF Len(base) < i THEN <<>>
    ELSE LET Prepend(rest) == [k \in DOMAIN rest |-> <<Head(base)>> \o rest[k]]
         IN Apply(combinations(Tail(base), i - 1), Prepend)
            \o combinations(Tail(base), i)

RECURSIVE CombineSizes(_, _, _, _)
CombineSizes(item, base, min_count, i) ==
    IF i > Len(base) THEN <<>>
    ELSE LET Enough(item_set) == Len(item_set) >= min_count - 1
             Emit(kept) == [k \in DOMAIN kept |-> <<item>> \o kept[k]]
         IN Apply(SelectSeq(combinations(base, i), Enough), Emit)
            \o CombineSizes(item, base, min_count, i + 1)

\* A variant that keeps the combinations one item short of min_item_count.
find_frequent_item_sets_short(item, base, min_count) ==
    CombineSizes(item, base, min_count - 1, 1)

find_frequent_item_sets(item, base, min_count) ==
    CombineSizes(item, base, min_count, 1)

RECURSIVE find_frequency_item_sets(_, _)
find_frequency_item_sets(bases, min_count) ==
    IF bases = <<>> THEN <<>>
    ELSE find_frequent_item_sets(Head(bases).key, Head(bases).value, min_count)
         \o find_frequency_item_sets(Tail(bases), min_count)

-----------------------------------------------------------------------------
(* The engine: FpGrowth.__init__, FpGrowth.build and its steps *)

NoCall == [called |-> FALSE, item |-> None, pointer |-> None, before |-> <<>>,
           after |-> <<>>, raised |-> "none"]

Finished(e) == pc[e] \in {"built", "raised"}

InitEngine ==
    /\ set_order \in SetOrders
    /\ pc = [e \in Engines |-> "start"]
    /\ item_sets = [e \in Engines |-> <<>>]
    /\ next_set = [e \in Engines |-> 0]
    /\ item_header_table = [e \in Engines |-> <<>>]
    /\ nodes = [e \in Engines |-> Tree]
    /\ conditional_pattern_bases = [e \in Engines |-> <<>>]
    /\ raised = [e \in Engines |-> "none"]
    /\ result = [e \in Engines |-> <<>>]
    /\ min_item_count = [e \in Engines |-> 0]
    /\ last_call = NoCall

\* Two engines on one collection, the second with a threshold no lower.
InitMono ==
    /\ InitEngine
    /\ \/ /\ input \in Collections
          /\ min_support \in [Engines -> 1..MaxSupport]
       \/ /\ input = ReferenceItemSets
          /\ min_support \in [Engines -> ReferenceMinSupport..(ReferenceMinSupport + 1)]
    /\ min_support[1] <= min_support[2]

\* One engine is used; the other stays as constructed.
Init == InitMono /\ min_support[2] = min_support[1]

\* build, lines 25-28: remove the repeats, build the item header table.
BuildItemHeaderTable(e) ==
    /\ pc[e] = "start"
    /\ LET deduped == [i \in DOMAIN input |-> Dedup(input[i], set_order)]
       IN /\ item_sets' = [item_sets EXCEPT ![e] = deduped]
          /\ item_header_table' = [item_header_table EXCEPT ![e] =
                 build_item_header_table(@, deduped, min_support[e])]
    /\ pc' = [pc EXCEPT ![e] = "filter"]
    /\ UNCHANGED <<input, set_order, min_support, next_set, nodes,
                   conditional_pattern_bases, raised, result, min_item_count, last_call>>

\* build, line 30: filter and sort every item set.
FilterAndSort(e) ==
    /\ pc[e] = "filter"
    /\ item_sets' = [item_sets EXCEPT ![e] =
           [i \in DOMAIN @ |-> filter_and_sort_item_set(item_header_table[e], @[i])]]
    /\ next_set' = [next_set EXCEPT ![e] = 1]
    /\ pc' = [pc EXCEPT ![e] = "tree"]
    /\ UNCHANGED <<input, set_order, min_support, item_header_table, nodes,
                   conditional_pattern_bases, raised, result, min_item_count, last_call>>

\* _build_tree: one iteration of the loop over the item sets.
BuildTreeStep(e) ==
    /\ pc[e] = "tree"
    /\ next_set[e] <= Len(item_sets[e])
    /\ LET done == add_item_set(nodes[e], item_header_table[e], 1,
                                item_sets[e][next_set[e]])
       IN /\ nodes' = [nodes EXCEPT ![e] = done.nodes]
          /\ item_header_table' = [item_header_table EXCEPT ![e] = done.table]
          /\ IF done.raised = "none"
             THEN /\ next_set' = [next_set EXCEPT ![e] = @ + 1]
                  /\ UNCHANGED <<pc, raised>>
             ELSE /\ pc' = [pc EXCEPT ![e] = "raised"]
                  /\ raised' = [raised EXCEPT ![e] = done.raised]
                  /\ UNCHANGED next_set
    /\ UNCHANGED <<input, set_order, min_support, item_sets,
                   conditional_pattern_bases, result, min_item_count, last_call>>

\* build, line 35, once the loop of _build_tree has ended.
BuildConditionalPatternBases(e) ==
    /\ pc[e] = "tree"
    /\ next_set[e] > Len(item_sets[e])
    /\ \E backwards \in BOOLEAN :
         conditional_pattern_bases' = [conditional_pattern_bases EXCEPT ![e] =
             build_conditional_pattern_bases(@, Reversed(get_table(item_header_table[e])),
                                             nodes[e], min_support[e], backwards)]
    /\ pc' = [pc EXCEPT ![e] = "built"]
    /\ UNCHANGED <<input, set_order, min_support, item_sets, next_set,
                   item_header_table, nodes, raised, result, min_item_count, last_call>>

\* find_frequency_item_sets(min_item_count), once build has returned or raised.
FindFrequencyItemSets(e) ==
    /\ Finished(e)
    /\ \E count \in 1..MaxItemCount :
         /\ result' = [result EXCEPT ![e] =
                find_frequency_item_sets(conditional_pattern_bases[e], count)]
         /\ min_item_count' = [min_item_count EXCEPT ![e] = count]
    /\ UNCHANGED <<input, set_order, min_support, pc, item_sets, next_set,
                   item_header_table, nodes, conditional_pattern_bases, raised, last_call>>

Build(e) ==
    \/ BuildItemHeaderTable(e)
    \/ FilterAndSort(e)
    \/ BuildTreeStep(e)
    \/ BuildConditionalPatternBases(e)

\* A direct call item_header_table.add_item_header_pointer(node) by the owner of
\* the engine, after build has returned or raised: node is a node of the heap,
\* or a Node the caller has just made, which is in nobody's tree.  last_call
\* records the one call the model follows.
AddItemHeaderPointerCall(e) ==
    /\ Finished(e)
    /\ ~last_call.called
    /\ \E heap \in {nodes[e]} \cup {Append(nodes[e], Node(item, 1, None)) : item \in Items} :
         \E pointer \in (IF heap = nodes[e] THEN 1..Len(heap) ELSE {Len(heap)}) :
           LET done == add_item_header_pointer(item_header_table[e], heap, pointer)
           IN /\ nodes' = [nodes EXCEPT ![e] = heap]
              /\ item_header_table' = [item_header_table EXCEPT ![e] = done.table]
              /\ last_call' = [called |-> TRUE, item |-> heap[pointer].item,
                               pointer |-> pointer, before |-> item_header_table[e],
                               after |-> done.table, raised |-> done.raised]
    /\ UNCHANGED <<input, set_order, min_support, pc, item_sets, next_set,
                   conditional_pattern_bases, raised, result, min_item_count>>

Next == Build(1) \/ FindFrequencyItemSets(1)

Spec == Init /\ [][Next]_vars

\* Two engines built one after the other on the same collection.
NextMono == Build(1) \/ (Finished(1) /\ Build(2))

SpecMono == InitMono /\ [][NextMono]_vars

\* The engine and a caller that registers nodes with the header table itself.
NextPtr == Build(1) \/ AddItemHeaderPointerCall(1)

SpecPtr == Init /\ [][NextPtr]_vars

-----------------------------------------------------------------------------
(* Notions the claims are stated with *)

AllItems == 1..NumItems
Keys(d) == {d[i].key : i \in DOMAIN d}
NoRepeatedKey(d) == \A i \in DOMAIN d : \A j \in DOMAIN d : d[i].key = d[j].key => i = j
IsPrefix(s, t) == Len(s) <= Len(t) /\ \A i \in DOMAIN s : s[i] = t[i]

\* The number of input item sets that contain item.
Support(item) == Cardinality({i \in DOMAIN input : item \in Range(input[i])})

Reference(e) == input = ReferenceItemSets /\ min_support[e] = ReferenceMinSupport

\* Every item set has been offered to the tree.
Inserted(e) ==
    \/ pc[e] = "built"
    \/ pc[e] = "tree" /\ next_set[e] > Len(item_sets[e])

\* The items on the way from the root to node k, the root left out.
RECURSIVE Path(_, _)
Path(heap, k) ==
    IF k = None \/ heap[k].item = None THEN <<>>
    ELSE Append(Path(heap, heap[k].parent), heap[k].item)

\* The nodes above node k, the root left out.
RECURSIVE Ancestors(_, _)
Ancestors(heap, k) ==
    LET up == heap[k].parent
    IN IF up = None \/ heap[up].item = None THEN {}
       ELSE {up} \cup Ancestors(heap, up)

\* Node k hangs under the root by parent and children links.
RECURSIVE InTree(_, _)
InTree(heap, k) ==
    \/ k = 1
    \/ /\ k \in 2..Len(heap)
       /\ heap[k].parent \in 1..Len(heap)
       /\ k \in Range(heap[heap[k].parent].children)
       /\ InTree(heap, heap[k].parent)

RECURSIVE SumFrequency(_, _)
SumFrequency(heap, S) ==
    IF S = {} THEN 0
    ELSE LET k == CHOOSE x \in S : TRUE
         IN heap[k].frequency + SumFrequency(heap, S \ {k})

\* n(x, A): the frequencies of the nodes carrying x under an ancestor carrying A.
PathSupport(heap, x, A) ==
    SumFrequency(heap, {k \in 2..Len(heap) :
                          /\ heap[k].item = x
                          /\ \E a \in Ancestors(heap, k) : heap[a].item = A})

BaseOf(e, x) ==
    IF DictHas(conditional_pattern_bases[e], x)
    THEN DictGet(conditional_pattern_bases[e], x) ELSE <<>>

\* The entries of s at the positions S, in the order of s.
Pick(s, S) == LET at == Ascending(S) IN [k \in DOMAIN at |-> s[at[k]]]

\* Python's exception classes that a handler for LookupError catches.
LookupErrors == {"LookupError", "IndexError", "KeyError"}

-----------------------------------------------------------------------------
(* The claims *)

\* C1 (as claimed): build never raises, also when an item set is empty after
\* filtering; on an empty collection or with every item below min_support it
\* leaves an empty header table, a root-only tree, no conditional pattern base
\* and an empty result of find_frequency_item_sets.
C1_EmptyItemSetIsNoError ==
    \A e \in Engines :
        /\ pc[e] # "raised"
        /\ (pc[e] = "built" /\ \A x \in AllItems : Support(x) < min_support[e])
           => /\ item_header_table[e] = <<>>
              /\ nodes[e] = Tree
              /\ conditional_pattern_bases[e] = <<>>
              /\ result[e] = <<>>

\* C2 (as claimed): add_item_header_pointer on a node whose item is no key of
\* the table fails with an error of the LookupError class and leaves the table
\* as it was; on a node whose item is a key it raises nothing and adds the node
\* to the pointer set of that item only.
C2_AbsentItemRaisesLookupError ==
    last_call.called =>
        IF last_call.item \notin Keys(last_call.before)
        THEN last_call.raised \in LookupErrors /\ last_call.after = last_call.before
        ELSE /\ last_call.raised = "none"
             /\ last_call.after =
                  [i \in DOMAIN last_call.before |->
                     IF last_call.before[i].key = last_call.item
                     THEN [last_call.before[i] EXCEPT
                              !.value.pointers = @ \cup {last_call.pointer}]
                     ELSE last_call.before[i]]

\* C2 (amended): add_item_header_pointer on a node whose item is no key of the
\* table fails with a ValueError, which is not of the LookupError class, and
\* leaves the table as it was; on a node whose item is a key it raises nothing
\* and adds the node to the pointer set of that item only.
C2_AbsentItemRaisesValueError ==
    last_call.called =>
        IF last_call.item \notin Keys(last_call.before)
        THEN /\ last_call.raised = "ValueError"
             /\ last_call.raised \notin LookupErrors
             /\ last_call.after = last_call.before
        ELSE /\ last_call.raised = "none"
             /\ last_call.after =
                  [i \in DOMAIN last_call.before |->
                     IF last_call.before[i].key = last_call.item
                     THEN [last_call.before[i] EXCEPT
                              !.value.pointers = @ \cup {last_call.pointer}]
                     ELSE last_call.before[i]]

\* A call on a node whose item is absent from a table that has headers.
C2_Witness ==
    /\ last_call.called
    /\ last_call.before # <<>>
    /\ last_call.item \in Items
    /\ last_call.item \notin Keys(last_call.before)
    /\ last_call.raised # "none"

\* C3: find_frequency_item_sets(min_item_count) returns exactly the lists
\* [item] + c, one for each item with a conditional pattern base B and each
\* non-empty combination c of B of size at least min_item_count - 1; every list
\* returned has at least min_item_count items.
C3_Enumeration ==
    \A e \in Engines :
        min_item_count[e] >= 1 =>
            LET bases == conditional_pattern_bases[e]
                expected ==
                    UNION {{<<bases[i].key>> \o Pick(bases[i].value, S) :
                               S \in {T \in SUBSET DOMAIN bases[i].value :
                                        /\ T # {}
                                        /\ Cardinality(T) >= min_item_count[e] - 1}} :
                           i \in DOMAIN bases}
            IN /\ Range(result[e]) = expected
               /\ Len(result[e]) = Cardinality(expected)
               /\ \A k \in DOMAIN result[e] : Len(result[e][k]) >= min_item_count[e]

\* A call with min_item_count 3 that drops the pairs of a base and keeps a triple.
C3_Witness ==
    \E e \in Engines :
        /\ min_item_count[e] = 3
        /\ result[e] # <<>>
        /\ \E i \in DOMAIN conditional_pattern_bases[e] :
               Len(conditional_pattern_bases[e][i].value) >= 2

\* C4: once the header table is built its keys are exactly the items that occur
\* in at least min_support input item sets, an item repeated in one item set
\* counting once, each header holds that number as its frequency, and neither
\* the tree construction nor the extraction of the bases changes it.
C4_HeaderTable ==
    \A e \in Engines :
        pc[e] # "start" =>
            LET table == item_header_table[e]
            IN /\ Keys(table) = {x \in AllItems : Support(x) >= min_support[e]}
               /\ NoRepeatedKey(table)
               /\ \A i \in DOMAIN table :
                      /\ table[i].value.item = table[i].key
                      /\ table[i].value.frequency = Support(table[i].key)

\* A finished build of a collection with a repeated item in one item set, an
\* item kept and an item filtered out.
C4_Witness ==
    \E e \in Engines :
        /\ pc[e] = "built"
        /\ \E i \in DOMAIN input : Len(input[i]) > Cardinality(Range(input[i]))
        /\ item_header_table[e] # <<>>
        /\ \E x \in AllItems : Support(x) > 0 /\ Support(x) < min_support[e]

\* C5 (as claimed): on the reference input with min_support 3 the root has
\* exactly two children after all item sets are inserted, one of them carrying
\* item 2 with frequency 10.
C5_RootHasTwoChildren ==
    \A e \in Engines :
        (Reference(e) /\ Inserted(e)) =>
            /\ Len(nodes[e][1].children) = 2
            /\ \E c \in Range(nodes[e][1].children) :
                   nodes[e][c].item = 2 /\ nodes[e][c].frequency = 10

\* C5 (amended): on the reference input with min_support 3 the root has exactly
\* one child after all item sets are inserted, and it carries item 2 with
\* frequency 10.
C5_RootHasOneChild ==
    \A e \in Engines :
        (Reference(e) /\ Inserted(e)) =>
            /\ Len(nodes[e][1].children) = 1
            /\ \A c \in Range(nodes[e][1].children) :
                   nodes[e][c].item = 2 /\ nodes[e][c].frequency = 10

\* The reference input with every item set inserted.
C5_Witness ==
    \E e \in Engines : Reference(e) /\ Inserted(e) /\ Len(nodes[e]) > 1

\* C6 (as claimed): on the reference input with min_support 3,
\* find_frequency_item_sets(2) returns a list that includes [2, 1] and no item
\* set containing item 6 or item 8.
C6_ResultHasTwoOne ==
    \A e \in Engines :
        (Reference(e) /\ pc[e] = "built" /\ min_item_count[e] = 2) =>
            /\ <<2, 1>> \in Range(result[e])
            /\ \A k \in DOMAIN result[e] :
                   6 \notin Range(result[e][k]) /\ 8 \notin Range(result[e][k])

\* C6 (amended): on the reference input with min_support 3,
\* find_frequency_item_sets(2) returns a list that includes [1, 2], the item 1
\* followed by the item 2 of its conditional pattern base, and no item set
\* containing item 6 or item 8.
C6_ResultHasOneTwo ==
    \A e \in Engines :
        (Reference(e) /\ pc[e] = "built" /\ min_item_count[e] = 2) =>
            /\ <<1, 2>> \in Range(result[e])
            /\ \A k \in DOMAIN result[e] :
                   6 \notin Range(result[e][k]) /\ 8 \notin Range(result[e][k])

\* The reference run after find_frequency_item_sets(2).
C6_Witness ==
    \E e \in Engines :
        Reference(e) /\ pc[e] = "built" /\ min_item_count[e] = 2 /\ result[e] # <<>>

\* C7: the frequency of every node but the root is the number of item sets
\* inserted so far whose filtered and sorted sequence starts with the items on
\* the way from the root to the node; the root children carrying X together
\* count the inserted item sets whose first item is X.
C7_NodeFrequency ==
    \A e \in Engines :
        pc[e] \in {"tree", "built", "raised"} =>
            LET heap == nodes[e]
                inserted == {i \in DOMAIN item_sets[e] : i < next_set[e]}
            IN /\ \A k \in 2..Len(heap) :
                      heap[k].frequency =
                          Cardinality({i \in inserted :
                                          IsPrefix(Path(heap, k), item_sets[e][i])})
               /\ \A x \in AllItems :
                      SumFrequency(heap, {c \in Range(heap[1].children) : heap[c].item = x})
                          = Cardinality({i \in inserted :
                                            IsPrefix(<<x>>, item_sets[e][i])})

\* Two item sets have shared a path of two nodes.
C7_Witness ==
    \E e \in Engines :
        /\ pc[e] = "built"
        /\ \E k \in 2..Len(nodes[e]) :
               nodes[e][k].frequency >= 2 /\ Len(Path(nodes[e], k)) >= 2

\* C8: after every item set processed by _build_tree, and after build, every
\* node but the root is in the pointer set of exactly one header, the header of
\* its item; the root is in no pointer set; every pointer is a node of the tree.
C8_HeaderTreeConsistency ==
    \A e \in Engines :
        LET heap == nodes[e]
            table == item_header_table[e]
        IN /\ \A k \in 2..Len(heap) :
                  /\ Cardinality({i \in DOMAIN table : k \in table[i].value.pointers}) = 1
                  /\ \A i \in DOMAIN table :
                         k \in table[i].value.pointers
                             => table[i].value.item = heap[k].item
           /\ \A i \in DOMAIN table :
                  /\ 1 \notin table[i].value.pointers
                  /\ \A k \in table[i].value.pointers :
                         k \in 2..Len(heap) /\ InTree(heap, k)

\* A tree in which one item has nodes in two places.
C8_Witness ==
    \E e \in Engines :
        /\ pc[e] \in {"tree", "built"}
        /\ \E i \in DOMAIN item_header_table[e] :
               Cardinality(item_header_table[e][i].value.pointers) >= 2

\* C9: after build, an item x of the header table has a conditional pattern
\* base exactly when n(x, A) >= min_support for some item A, and the base then
\* lists exactly those items A, each once, and never x.
C9_ConditionalPatternBases ==
    \A e \in Engines :
        pc[e] = "built" =>
            /\ Keys(conditional_pattern_bases[e]) \subseteq Keys(item_header_table[e])
            /\ NoRepeatedKey(conditional_pattern_bases[e])
            /\ \A x \in Keys(item_header_table[e]) :
                   LET frequent == {A \in AllItems :
                                       PathSupport(nodes[e], x, A) >= min_support[e]}
                       base == BaseOf(e, x)
                   IN /\ DictHas(conditional_pattern_bases[e], x) <=> frequent # {}
                      /\ Range(base) = frequent
                      /\ Len(base) = Cardinality(frequent)
                      /\ x \notin Range(base)

\* A base with an item whose support is summed over two nodes, and an ancestor
\* item left out of a base for want of support.
C9_Witness ==
    \E e \in Engines :
        /\ pc[e] = "built"
        /\ \E x \in Keys(item_header_table[e]) : \E A \in Range(BaseOf(e, x)) :
               Cardinality({k \in 2..Len(nodes[e]) :
                               /\ nodes[e][k].item = x
                               /\ \E a \in Ancestors(nodes[e], k) : nodes[e][a].item = A}) >= 2
        /\ \E x \in Keys(item_header_table[e]) : \E A \in AllItems :
               /\ PathSupport(nodes[e], x, A) > 0
               /\ PathSupport(nodes[e], x, A) < min_support[e]

\* C10: of two engines built on one collection, the one with the threshold no
\* lower has a header table with no more entries, a tree with no more nodes and,
\* for every item, a conditional pattern base with no more items.
C10_MonotonicFiltering ==
    (Finished(1) /\ Finished(2) /\ min_support[1] <= min_support[2]) =>
        /\ Len(item_header_table[2]) <= Len(item_header_table[1])
        /\ Len(nodes[2]) <= Len(nodes[1])
        /\ \A x \in AllItems : Len(BaseOf(2, x)) <= Len(BaseOf(1, x))

\* Two finished builds, the higher threshold giving a smaller table, a smaller
\* tree and a smaller base.
C10_Witness ==
    /\ pc[1] = "built" /\ pc[2] = "built"
    /\ min_support[1] < min_support[2]
    /\ Len(item_header_table[2]) < Len(item_header_table[1])
    /\ Len(nodes[2]) < Len(nodes[1])
    /\ Len(nodes[2]) > 1
    /\ \E x \in AllItems : Len(BaseOf(2, x)) < Len(BaseOf(1, x))

=============================================================================
